---- MODULE Spec2Model ----
(***************************************************************************)
(* Model of the two-asset stable-swap pool engine                          *)
(* (contracts/pool/src/methods/internal/pool.rs): the curve solver         *)
(* get_d / get_y, the deposit / withdraw / swap / claim_rewards            *)
(* transitions, the LP accounting with the per-share reward accumulator,   *)
(* and the token holdings moved through the external token interface.      *)
(*                                                                         *)
(* Every call is one atomic step (the host runs the pool single-threaded   *)
(* and rolls a failed call back): a call that returns an error or aborts   *)
(* changes nothing but the record `last` of the latest call.               *)
(***************************************************************************)
EXTENDS Integers, Sequences, FiniteSets, TLC

\* ------------------------------------------------------------------------
\* Bounds of the model (not program constants).
\* ------------------------------------------------------------------------

\* Number of calls made to the pool in one run.
MaxCalls == 4

\* The pool ceiling is 2^MaxTokenBalanceBits.  The program has 2^40
\* (pool.rs:31); the model scales the exponent down so that the ceiling lies
\* inside the explored balances.
MaxTokenBalanceBits == 4

\* Tokens of each kind every user holds at the start.
InitialHolding == 12

\* Width in bits of the unsigned word the pool computes in.  The program has
\* u128; the model scales the width down with the ceiling, keeping every
\* value of a pool below the ceiling inside the word.
WordBits == 15

\* Largest argument get_d is applied to on its own.
MaxArg == 12

\* Largest small amount and largest decimals the precision scaler is applied
\* to on its own.
MaxAmount == 25

MaxDecimals == 8

\* Number of calls made to the pool in one run that follows the rewards.
MaxRewardCalls == 6

\* ------------------------------------------------------------------------
\* Program constants.
\* ------------------------------------------------------------------------

BP == 10000

P == 48

SYSTEM_PRECISION == 3

MAX_TOKEN_BALANCE == 2 ^ MaxTokenBalanceBits

\* first value that does not fit the unsigned word
Word == 2 ^ WordBits

\* ------------------------------------------------------------------------
\* Integer roots (shared::utils::num): floor square root and floor cube root.
\* ------------------------------------------------------------------------

RECURSIVE SqrtSearch(_, _, _)
SqrtSearch(n, lo, hi) ==
    IF lo >= hi THEN lo
    ELSE LET mid == (lo + hi + 1) \div 2
         IN  IF mid * mid <= n THEN SqrtSearch(n, mid, hi)
                               ELSE SqrtSearch(n, lo, mid - 1)

\* largest r with r*r <= n (46340 is the largest root of a 31-bit value)
sqrt(n) == SqrtSearch(n, 0, IF n < 46340 THEN n ELSE 46340)

RECURSIVE CbrtSearch(_, _, _)
CbrtSearch(n, lo, hi) ==
    IF lo >= hi THEN lo
    ELSE LET mid == (lo + hi + 1) \div 2
         IN  IF mid * mid * mid <= n THEN CbrtSearch(n, mid, hi)
                                     ELSE CbrtSearch(n, lo, mid - 1)

\* largest r with r*r*r <= n (1290 is the largest cube root of a 31-bit value)
cbrt(n) == CbrtSearch(n, 0, IF n < 1290 THEN n ELSE 1290)

Min(x, y) == IF x <= y THEN x ELSE y

Max(x, y) == IF x >= y THEN x ELSE y

\* ------------------------------------------------------------------------
\* Curve solver.
\* ------------------------------------------------------------------------

get_d(self, x, y) ==
    LET xy == x * y
        \* Axy(x+y)
        p1 == self.a * (x + y) * xy
        \* xy(4A - 1) / 3
        p2 == (xy * ((self.a * 4) - 1)) \div 3
        \* sqrt(p1^2 + p2^3)
        p3 == sqrt((p1 * p1) + (p2 * p2 * p2))
        d0 == cbrt(p1 + p3)
        d1 == IF p3 > p1 THEN d0 - cbrt(p3 - p1) ELSE d0 + cbrt(p1 - p3)
    IN  d1 * 2

\* y = (sqrt(x(4AD^3 + x (4A(D - x) - D )^2)) + x (4A(D - x) - D ))/8Ax
get_y(self, native_x) ==
    LET a4    == self.a * 4
        ddd   == self.d * self.d * self.d
        part1 == a4 * (self.d - native_x) - self.d
        part2 == (ddd * a4 + (part1 * part1) * native_x) * native_x
    IN  (sqrt(part2) + native_x * part1) \div ((self.a * 8) * native_x)

\* update_d that keeps the stale d.
update_d_stale(self) == self

update_d(self) ==
    [self EXCEPT !.d = get_d(self, self.token_a_balance, self.token_b_balance)]

\* ------------------------------------------------------------------------
\* Precision scaler.
\* ------------------------------------------------------------------------

\* amount_to_system_precision that leaves the amount unscaled.
amount_to_system_precision_unscaled(amount, decimals) == amount

amount_to_system_precision(amount, decimals) ==
    IF decimals > SYSTEM_PRECISION
        THEN amount \div (10 ^ (decimals - SYSTEM_PRECISION))
    ELSE IF decimals < SYSTEM_PRECISION
        THEN amount * (10 ^ (SYSTEM_PRECISION - decimals))
    ELSE amount

amount_from_system_precision(amount, decimals) ==
    IF decimals > SYSTEM_PRECISION
        THEN amount * (10 ^ (decimals - SYSTEM_PRECISION))
    ELSE IF decimals < SYSTEM_PRECISION
        THEN amount \div (10 ^ (SYSTEM_PRECISION - decimals))
    ELSE amount

\* validate_balance_ratio: TRUE when the check passes.  The caller has to
\* rule out max = 0 first (the division aborts there).
validate_balance_ratio(self) ==
    LET min == Min(self.token_a_balance, self.token_b_balance)
        max == Max(self.token_a_balance, self.token_b_balance)
    IN  (min * BP) \div max >= self.balance_ratio_min_bp

\* ------------------------------------------------------------------------
\* 128-bit fixed point of the reward accumulator.  acc_reward_per_share_p is
\* kept as four digits of 16 bits, least significant first, so that the
\* shift by P = 48 bits is a shift by three digits; the fourth digit holds
\* everything from bit 48 up.
\* ------------------------------------------------------------------------

\* one digit: a third of the P bits
DigitBase == 2 ^ (P \div 3)

AccZero == <<0, 0, 0, 0>>

\* (lp_amount * acc) >> P
Snapshot(lp_amount, acc) ==
    LET t1 == acc[1] * lp_amount
        t2 == acc[2] * lp_amount + (t1 \div DigitBase)
        t3 == acc[3] * lp_amount + (t2 \div DigitBase)
    IN  acc[4] * lp_amount + (t3 \div DigitBase)

\* (reward_amount << P) / total_lp_amount, by long division
ShiftDiv(reward_amount, total_lp_amount) ==
    LET q4 == reward_amount \div total_lp_amount
        r4 == reward_amount % total_lp_amount
        q3 == (r4 * DigitBase) \div total_lp_amount
        r3 == (r4 * DigitBase) % total_lp_amount
        q2 == (r3 * DigitBase) \div total_lp_amount
        r2 == (r3 * DigitBase) % total_lp_amount
        q1 == (r2 * DigitBase) \div total_lp_amount
    IN  <<q1, q2, q3, q4>>

AccAdd(x, y) ==
    LET s1 == x[1] + y[1]
        s2 == x[2] + y[2] + (s1 \div DigitBase)
        s3 == x[3] + y[3] + (s2 \div DigitBase)
        s4 == x[4] + y[4] + (s3 \div DigitBase)
    IN  <<s1 % DigitBase, s2 % DigitBase, s3 % DigitBase, s4>>

\* ------------------------------------------------------------------------
\* LP accounting.  deposit_lp and withdraw_lp give the pool and the user
\* record after the call and the pending reward they return; ok is FALSE
\* when an unsigned subtraction or the assertion of the code aborts.
\* ------------------------------------------------------------------------

\* deposit_lp that forgets to add to total_lp_amount.
deposit_lp_no_total(self, user, lp_amount) ==
    LET snap    == Snapshot(user.lp_amount, self.acc_reward_per_share_p)
        pending == IF user.lp_amount > 0 THEN snap - user.reward_debt ELSE 0
        new_lp  == user.lp_amount + lp_amount
    IN  [ok      |-> pending >= 0,
         pending |-> pending,
         pool    |-> self,
         user    |-> [lp_amount   |-> new_lp,
                      reward_debt |-> Snapshot(new_lp, self.acc_reward_per_share_p)]]

deposit_lp(self, user, lp_amount) ==
    LET snap    == Snapshot(user.lp_amount, self.acc_reward_per_share_p)
        pending == IF user.lp_amount > 0 THEN snap - user.reward_debt ELSE 0
        new_lp  == user.lp_amount + lp_amount
    IN  [ok      |-> pending >= 0,
         pending |-> pending,
         pool    |-> [self EXCEPT !.total_lp_amount = @ + lp_amount],
         user    |-> [lp_amount   |-> new_lp,
                      reward_debt |-> Snapshot(new_lp, self.acc_reward_per_share_p)]]

withdraw_lp(self, user, lp_amount) ==
    LET snap    == Snapshot(user.lp_amount, self.acc_reward_per_share_p)
        pending == IF user.lp_amount > 0 THEN snap - user.reward_debt ELSE 0
        new_lp  == user.lp_amount - lp_amount
    IN  [ok      |-> /\ user.lp_amount >= lp_amount
                     /\ pending >= 0
                     /\ self.total_lp_amount >= lp_amount,
         pending |-> pending,
         pool    |-> [self EXCEPT !.total_lp_amount = @ - lp_amount],
         user    |-> [lp_amount   |-> new_lp,
                      reward_debt |-> IF new_lp >= 0
                                      THEN Snapshot(new_lp, self.acc_reward_per_share_p)
                                      ELSE 0]]

\* add_rewards that diverts nothing to the admin: the whole reward goes to the
\* accumulator.
add_rewards_no_admin_cut(self, reward_amount) ==
    IF self.total_lp_amount > 0
    THEN [self EXCEPT
             !.acc_reward_per_share_p =
                 AccAdd(@, ShiftDiv(reward_amount, self.total_lp_amount))]
    ELSE self

add_rewards(self, reward_amount) ==
    IF self.total_lp_amount > 0
    THEN LET admin_fee_rewards == (reward_amount * self.admin_fee_share_bp) \div BP
             rest              == reward_amount - admin_fee_rewards
         IN  [self EXCEPT
                 !.acc_reward_per_share_p =
                     AccAdd(@, ShiftDiv(rest, self.total_lp_amount)),
                 !.admin_fee_amount = @ + admin_fee_rewards]
    ELSE self

\* ------------------------------------------------------------------------
\* State.
\* ------------------------------------------------------------------------

Users == {"alice", "bob"}

PoolAddress == "pool"

Accounts == Users \cup {PoolAddress}

Tokens == {"TokenA", "TokenB"}

Directions == {"A2B", "B2A"}

\* Parameters the pool is constructed with.
AValues == {1}

FeeShareBpValues == {5000}

AdminFeeShareBpValues == {5000}

BalanceRatioMinBpValues == {3000}

DecimalsValues == {3}

\* Arguments the calls are made with.
DepositAmounts == {0, 1, 6, 9, 10}

WithdrawAmounts == {0, 2, 5}

SwapAmounts == {0, 1, 2}

Traders == {"alice"}

SwapModes ==
    { [recipient |-> "alice", zero_fee |-> FALSE, claimable |-> FALSE,
       receive_amount_min |-> 0],
      [recipient |-> "bob", zero_fee |-> TRUE, claimable |-> FALSE,
       receive_amount_min |-> 0],
      [recipient |-> "bob", zero_fee |-> FALSE, claimable |-> TRUE,
       receive_amount_min |-> 0],
      [recipient |-> "alice", zero_fee |-> FALSE, claimable |-> FALSE,
       receive_amount_min |-> 2] }

VARIABLES
    pool,        \* the Pool record
    users,       \* UserDeposit record of every user
    claimable,   \* ClaimableBalance amount of every recipient
    holdings,    \* holdings[token][account]: tokens held at the token contracts
    lp_tokens,   \* LP tokens held by every user
    last,        \* the latest call: what was called, its outcome, what it returned
    calls,       \* number of calls made so far
    rewards_paid,  \* sum of the pending rewards deposit, withdraw and claim_rewards yielded
    fees_added     \* sum of the fees swap passed to add_rewards

vars == <<pool, users, claimable, holdings, lp_tokens, last, calls, rewards_paid, fees_added>>

NoUser == "none"

\* A call that failed is recorded with its operation, status and amount; a
\* call that succeeded also with its sender, direction and results.
NoCall ==
    [op |-> "none", status |-> "Ok", sender |-> NoUser, amount |-> 0,
     direction |-> "none", ret1 |-> 0, ret2 |-> 0,
     new_from |-> 0, new_to |-> 0, result_sp |-> 0]

\* Direction::to_tokens
to_tokens(direction) ==
    IF direction = "A2B" THEN <<"TokenA", "TokenB">> ELSE <<"TokenB", "TokenA">>

get_token_balance(self, token) ==
    IF token = "TokenA" THEN self.token_a_balance ELSE self.token_b_balance

set_token_balance(self, amount, token) ==
    IF token = "TokenA" THEN [self EXCEPT !.token_a_balance = amount]
                        ELSE [self EXCEPT !.token_b_balance = amount]

\* The token contract's transfer(from, to, amount); it fails (and with it the
\* whole call) when `from` holds less than amount.
can_transfer(hold, token, from, amount) == hold[token][from] >= amount

transfer(hold, token, from, to, amount) ==
    IF from = to THEN hold
    ELSE [hold EXCEPT ![token][from] = @ - amount, ![token][to] = @ + amount]

Init ==
    /\ \E a \in AValues, fee \in FeeShareBpValues, admin \in AdminFeeShareBpValues,
          ratio \in BalanceRatioMinBpValues, dec \in DecimalsValues :
          pool = [a |-> a, d |-> 0,
                  token_a_balance |-> 0, token_b_balance |-> 0,
                  reserves |-> 0, total_lp_amount |-> 0,
                  acc_reward_per_share_p |-> AccZero, admin_fee_amount |-> 0,
                  fee_share_bp |-> fee, admin_fee_share_bp |-> admin,
                  balance_ratio_min_bp |-> ratio,
                  decimals_a |-> dec, decimals_b |-> dec, decimals_lp |-> dec]
    /\ users = [u \in Users |-> [lp_amount |-> 0, reward_debt |-> 0]]
    /\ claimable = [u \in Users |-> 0]
    /\ holdings = [t \in Tokens |->
                      [acc \in Accounts |-> IF acc = PoolAddress THEN 0 ELSE InitialHolding]]
    /\ lp_tokens = [u \in Users |-> 0]
    /\ last = NoCall
    /\ calls = 0
    /\ rewards_paid = 0
    /\ fees_added = 0

\* ------------------------------------------------------------------------
\* The calls.  X_call gives the outcome of a call from the state it is made
\* in: its status ("Ok", one of the enumerated errors, or "Abort" for a panic
\* or a failed token operation) and, for "Ok", the state it leaves.  issued
\* counts the external effects (token transfer, mint, burn, claimable credit)
\* the call had issued when it returned; the host undoes them with the rest
\* when the call fails.
\* ------------------------------------------------------------------------

Failed(status, self, user, hold, lpt) ==
    [status |-> status, pool |-> self, user |-> user, holdings |-> hold,
     lp_tokens |-> lpt, ret1 |-> 0, ret2 |-> 0, fault |-> "none", wraps |-> FALSE,
     issued |-> 0]

\* The call aborts; fault names what aborted it: "division by zero",
\* "underflow" or "overflow" of the unsigned arithmetic, the "assertion" of
\* withdraw_lp, or a token operation that fails ("transfer").
Aborted(fault, self, user, hold, lpt) ==
    [Failed("Abort", self, user, hold, lpt) EXCEPT !.fault = fault]

\* A product of get_d that is computed in u128 does not fit the word.
get_d_overflows(self, x, y) ==
    \/ x * y >= Word
    \/ self.a * (x + y) >= Word
    \/ (x * y) * ((self.a * 4) - 1) >= Word
    \/ self.a * (x + y) * (x * y) >= Word

\* Pool::deposit after require!(amount_sp > 0).  self.d - old_d going below
\* zero ends the call either way: a build with overflow checks panics there,
\* a build without them hands the wrapped value, negative as i128, to mint,
\* which refuses it.  wraps marks a u128 product of update_d that does not
\* fit: a build with overflow checks aborts there, a build without them goes
\* on with the wrapped d to the ceiling check, which the balances fail.
deposit_checked(self, user, hold, lpt, amount_sp, sender) ==
    LET old_d       == self.d
        s1          == [self EXCEPT !.reserves = @ + amount_sp]
        old_balance == s1.token_a_balance + s1.token_b_balance
        first       == old_d = 0 \/ old_balance = 0
        half_amount == amount_sp \div 2
        token_a_amount == IF first THEN half_amount
                          ELSE (amount_sp * s1.token_a_balance) \div old_balance
        token_b_amount == IF first THEN half_amount
                          ELSE (amount_sp * s1.token_b_balance) \div old_balance
        s2          == IF first
                       THEN [s1 EXCEPT !.token_a_balance = half_amount,
                                       !.token_b_balance = half_amount]
                       ELSE [s1 EXCEPT !.token_a_balance = @ + token_a_amount,
                                       !.token_b_balance = @ + token_b_amount]
        s3          == update_d(s2)
        lp_amount   == s3.d - old_d
        pay_a       == amount_from_system_precision(token_a_amount, s3.decimals_a)
        pay_b       == amount_from_system_precision(token_b_amount, s3.decimals_b)
        minted      == amount_from_system_precision(lp_amount, s3.decimals_lp)
        hold1       == transfer(hold, "TokenA", sender, PoolAddress, pay_a)
        hold2       == transfer(hold1, "TokenB", sender, PoolAddress, pay_b)
        lp          == deposit_lp(s3, user, lp_amount)
    IN  IF \/ s1.reserves >= Word
           \/ amount_sp * Max(s1.token_a_balance, s1.token_b_balance) >= Word
            THEN Aborted("overflow", self, user, hold, lpt)
        ELSE IF get_d_overflows(s2, s2.token_a_balance, s2.token_b_balance)
            THEN [Aborted("overflow", self, user, hold, lpt) EXCEPT
                     !.wraps = ~(s2.token_a_balance + s2.token_b_balance
                                    < MAX_TOKEN_BALANCE)]
        ELSE IF ~(s3.token_a_balance + s3.token_b_balance < MAX_TOKEN_BALANCE)
            THEN Failed("PoolOverflow", self, user, hold, lpt)
        ELSE IF Max(s3.token_a_balance, s3.token_b_balance) = 0
            THEN Aborted("division by zero", self, user, hold, lpt)
        ELSE IF ~validate_balance_ratio(s3)
            THEN Failed("BalanceRatioExceeded", self, user, hold, lpt)
        ELSE IF lp_amount < 0
            THEN Aborted("underflow", self, user, hold, lpt)
        ELSE IF ~can_transfer(hold, "TokenA", sender, pay_a)
            THEN Aborted("transfer", self, user, hold, lpt)
        ELSE IF ~can_transfer(hold1, "TokenB", sender, pay_b)
            THEN [Aborted("transfer", self, user, hold, lpt) EXCEPT !.issued = 1]
        ELSE IF ~lp.ok
            THEN [Aborted("underflow", self, user, hold, lpt) EXCEPT !.issued = 3]
        ELSE [status |-> "Ok", pool |-> lp.pool, user |-> lp.user,
              holdings |-> hold2, lp_tokens |-> lpt + minted,
              ret1 |-> lp.pending, ret2 |-> lp_amount,
              fault |-> "none", wraps |-> FALSE, issued |-> 3]

\* deposit without require!(amount_sp > 0).
deposit_call_unchecked(self, user, hold, lpt, amount_sp, sender) ==
    deposit_checked(self, user, hold, lpt, amount_sp, sender)

\* Pool::deposit
deposit_call(self, user, hold, lpt, amount_sp, sender) ==
    IF ~(amount_sp > 0)
    THEN Failed("ZeroAmount", self, user, hold, lpt)
    ELSE deposit_checked(self, user, hold, lpt, amount_sp, sender)

\* Pool::withdraw.  The assertion of withdraw_lp, the division by an empty
\* old_balance and an unsigned subtraction going below zero abort the call.
withdraw_call(self, user, hold, lpt, amount_lp, sender) ==
    LET lp          == withdraw_lp(self, user, amount_lp)
        reward_amount == lp.pending
        s1          == lp.pool
        old_balance == s1.token_a_balance + s1.token_b_balance
        token_a_amount == (amount_lp * s1.token_a_balance) \div old_balance
        token_b_amount == (amount_lp * s1.token_b_balance) \div old_balance
        s2          == [s1 EXCEPT !.token_a_balance = @ - token_a_amount,
                                  !.token_b_balance = @ - token_b_amount]
        s3          == [s2 EXCEPT !.reserves = @ - amount_lp]
        old_d       == s3.d
        s4          == update_d(s3)
        pay_a       == amount_from_system_precision(token_a_amount, s4.decimals_a)
                         + reward_amount
        pay_b       == amount_from_system_precision(token_b_amount, s4.decimals_b)
                         + reward_amount
        burnt       == amount_from_system_precision(amount_lp, s4.decimals_lp)
        hold1       == transfer(hold, "TokenA", PoolAddress, sender, pay_a)
        hold2       == transfer(hold1, "TokenB", PoolAddress, sender, pay_b)
    IN  IF ~(user.lp_amount >= amount_lp)
            THEN Aborted("assertion", self, user, hold, lpt)
        ELSE IF ~lp.ok
            THEN Aborted("underflow", self, user, hold, lpt)
        ELSE IF old_balance = 0
            THEN Aborted("division by zero", self, user, hold, lpt)
        ELSE IF s2.token_a_balance < 0 \/ s2.token_b_balance < 0
            THEN Aborted("underflow", self, user, hold, lpt)
        ELSE IF ~(s2.token_a_balance + s2.token_b_balance < old_balance)
            THEN Failed("ZeroChanges", self, user, hold, lpt)
        ELSE IF ~(amount_lp <= s2.reserves)
            THEN Failed("ReservesExhausted", self, user, hold, lpt)
        ELSE IF ~(s4.d < old_d)
            THEN Failed("ZeroChanges", self, user, hold, lpt)
        ELSE IF ~can_transfer(hold, "TokenA", PoolAddress, pay_a)
            THEN Aborted("transfer", self, user, hold, lpt)
        ELSE IF ~can_transfer(hold1, "TokenB", PoolAddress, pay_b)
            THEN [Aborted("transfer", self, user, hold, lpt) EXCEPT !.issued = 1]
        ELSE IF lpt < burnt
            THEN [Aborted("transfer", self, user, hold, lpt) EXCEPT !.issued = 2]
        ELSE [status |-> "Ok", pool |-> s4, user |-> lp.user,
              holdings |-> hold2, lp_tokens |-> lpt - burnt,
              ret1 |-> reward_amount, ret2 |-> 0,
              fault |-> "none", wraps |-> FALSE, issued |-> 3]

SwapFailed(status, self, hold, claim, new_from, new_to) ==
    [status |-> status, pool |-> self, holdings |-> hold, claimable |-> claim,
     ret1 |-> 0, ret2 |-> 0, new_from |-> new_from, new_to |-> new_to,
     result_sp |-> 0, fault |-> "none", wraps |-> FALSE, issued |-> 0]

SwapAborted(fault, self, hold, claim, new_from, new_to) ==
    [SwapFailed("Abort", self, hold, claim, new_from, new_to) EXCEPT !.fault = fault]

\* The same once the transfer of the input has been issued.
SwapFailedAfterInput(status, self, hold, claim, new_from, new_to) ==
    [SwapFailed(status, self, hold, claim, new_from, new_to) EXCEPT !.issued = 1]

SwapAbortedAfterInput(fault, self, hold, claim, new_from, new_to) ==
    [SwapAborted(fault, self, hold, claim, new_from, new_to) EXCEPT !.issued = 1]

\* Pool::swap from the input transfer on, without the fast path of
\* amount_in == 0 (hold1: the holdings after the input transfer).  wraps marks
\* the unsigned subtraction to_bal - new_to going below zero: a build with
\* overflow checks aborts there, a build without them wraps to a value above
\* reserves and returns ReservesExhausted.
swap_exchange(self, hold, hold1, claim, recipient, amount_in, receive_amount_min, zero_fee, is_claimable, direction) ==
    LET token_from  == to_tokens(direction)[1]
        token_to    == to_tokens(direction)[2]
        s1          == set_token_balance(self,
                           get_token_balance(self, token_from) + amount_in, token_from)
        new_from    == get_token_balance(s1, token_from)
        token_to_new_amount == get_y(s1, new_from)
        taken       == new_from > token_to_new_amount
        result_sp   == IF taken
                       THEN get_token_balance(s1, token_to) - token_to_new_amount
                       ELSE 0
        result0     == IF taken
                       THEN amount_from_system_precision(result_sp, s1.decimals_a)
                       ELSE 0
        s2          == [s1 EXCEPT !.reserves = @ + amount_in - result_sp]
        fee         == IF zero_fee THEN 0 ELSE (result0 * s2.fee_share_bp) \div BP
        result      == result0 - fee
        s3          == set_token_balance(s2, token_to_new_amount, token_to)
        s4          == add_rewards(s3, fee)
        hold2       == transfer(hold1, token_to, PoolAddress, recipient, result)
    IN  IF new_from = 0
            THEN SwapAbortedAfterInput("division by zero", self, hold, claim, 0, 0)
        ELSE IF result_sp < 0
            THEN [SwapAbortedAfterInput("underflow", self, hold, claim,
                                        new_from, token_to_new_amount)
                     EXCEPT !.wraps = TRUE]
        ELSE IF ~(result_sp <= s1.reserves)
            THEN SwapFailedAfterInput("ReservesExhausted", self, hold, claim,
                                      new_from, token_to_new_amount)
        ELSE IF ~validate_balance_ratio(s4)
            THEN SwapFailedAfterInput("BalanceRatioExceeded", self, hold, claim,
                                      new_from, token_to_new_amount)
        ELSE IF ~(result >= receive_amount_min)
            THEN SwapFailedAfterInput("InsufficientReceivedAmount", self, hold, claim,
                                      new_from, token_to_new_amount)
        ELSE IF is_claimable
            THEN [status |-> "Ok", pool |-> s4, holdings |-> hold1,
                  claimable |-> [claim EXCEPT ![recipient] = @ + result],
                  ret1 |-> result, ret2 |-> fee, new_from |-> new_from,
                  new_to |-> token_to_new_amount, result_sp |-> result_sp,
                  fault |-> "none", wraps |-> FALSE, issued |-> 2]
        ELSE IF ~can_transfer(hold1, token_to, PoolAddress, result)
            THEN SwapAbortedAfterInput("transfer", self, hold, claim,
                                       new_from, token_to_new_amount)
        ELSE [status |-> "Ok", pool |-> s4, holdings |-> hold2,
              claimable |-> claim,
              ret1 |-> result, ret2 |-> fee, new_from |-> new_from,
              new_to |-> token_to_new_amount, result_sp |-> result_sp,
              fault |-> "none", wraps |-> FALSE, issued |-> 2]

\* swap without the fast path of amount_in == 0.
swap_call_no_fast_path(self, hold, claim, sender, recipient, amount_in, receive_amount_min, zero_fee, is_claimable, direction) ==
    LET token_from == to_tokens(direction)[1]
        hold1      == transfer(hold, token_from, PoolAddress, sender, amount_in)
    IN  IF ~can_transfer(hold, token_from, PoolAddress, amount_in)
            THEN SwapAborted("transfer", self, hold, claim, 0, 0)
        ELSE swap_exchange(self, hold, hold1, claim, recipient, amount_in,
                           receive_amount_min, zero_fee, is_claimable, direction)

\* Pool::swap
swap_call(self, hold, claim, sender, recipient, amount_in, receive_amount_min, zero_fee, is_claimable, direction) ==
    LET token_from == to_tokens(direction)[1]
        hold1      == transfer(hold, token_from, PoolAddress, sender, amount_in)
    IN  IF ~can_transfer(hold, token_from, PoolAddress, amount_in)
            THEN SwapAborted("transfer", self, hold, claim, 0, 0)
        ELSE IF amount_in = 0
            THEN [status |-> "Ok", pool |-> self, holdings |-> hold1,
                  claimable |-> claim, ret1 |-> 0, ret2 |-> 0,
                  new_from |-> 0, new_to |-> 0, result_sp |-> 0,
                  fault |-> "none", wraps |-> FALSE, issued |-> 1]
        ELSE swap_exchange(self, hold, hold1, claim, recipient, amount_in,
                           receive_amount_min, zero_fee, is_claimable, direction)

\* claim_rewards that leaves reward_debt as it was.
claim_rewards_call_keeps_debt(self, user_deposit) ==
    LET rewards == Snapshot(user_deposit.lp_amount, self.acc_reward_per_share_p)
        pending == rewards - user_deposit.reward_debt
    IN  IF user_deposit.lp_amount > 0
        THEN [status |-> IF pending < 0 THEN "Abort" ELSE "Ok",
              user |-> user_deposit,
              ret1 |-> IF pending < 0 THEN 0 ELSE pending,
              fault |-> IF pending < 0 THEN "underflow" ELSE "none"]
        ELSE [status |-> "Ok", user |-> user_deposit, ret1 |-> 0, fault |-> "none"]

\* Pool::claim_rewards: the pending reward and the user record after the call.
claim_rewards_call(self, user_deposit) ==
    LET rewards == Snapshot(user_deposit.lp_amount, self.acc_reward_per_share_p)
        pending == rewards - user_deposit.reward_debt
    IN  IF user_deposit.lp_amount > 0
        THEN IF pending < 0
             THEN [status |-> "Abort", user |-> user_deposit, ret1 |-> 0,
                   fault |-> "underflow"]
             ELSE [status |-> "Ok",
                   user |-> IF pending > 0
                            THEN [user_deposit EXCEPT !.reward_debt = rewards]
                            ELSE user_deposit,
                   ret1 |-> pending, fault |-> "none"]
        ELSE [status |-> "Ok", user |-> user_deposit, ret1 |-> 0, fault |-> "none"]

\* ------------------------------------------------------------------------
\* Actions: one per entry point.
\* ------------------------------------------------------------------------

Recorded(op, status, sender, amount, direction, r) ==
    IF status = "Ok"
    THEN [op |-> op, status |-> status, sender |-> sender, amount |-> amount,
          direction |-> direction, ret1 |-> r.ret1, ret2 |-> r.ret2,
          new_from |-> r.new_from, new_to |-> r.new_to, result_sp |-> r.result_sp]
    ELSE [NoCall EXCEPT !.op = op, !.status = status, !.amount = amount]

NoSwap == [new_from |-> 0, new_to |-> 0, result_sp |-> 0]

\* The calls themselves; the actions below make them while calls remain.
deposit_made(sender, amount_sp) ==
    \E r \in {deposit_call(pool, users[sender], holdings, lp_tokens[sender],
                          amount_sp, sender)} :
        /\ calls' = calls + 1
        /\ pool' = r.pool
        /\ users' = [users EXCEPT ![sender] = r.user]
        /\ holdings' = r.holdings
        /\ lp_tokens' = [lp_tokens EXCEPT ![sender] = r.lp_tokens]
        /\ rewards_paid' = rewards_paid + r.ret1
        /\ UNCHANGED <<claimable, fees_added>>
        /\ \E status \in (IF r.wraps THEN {"Abort", "PoolOverflow"}
                                     ELSE {r.status}) :
              last' = Recorded("deposit", status, sender, amount_sp, "none",
                               [ret1 |-> r.ret1, ret2 |-> r.ret2] @@ NoSwap)

withdraw_made(sender, amount_lp) ==
    \E r \in {withdraw_call(pool, users[sender], holdings, lp_tokens[sender],
                           amount_lp, sender)} :
        /\ calls' = calls + 1
        /\ pool' = r.pool
        /\ users' = [users EXCEPT ![sender] = r.user]
        /\ holdings' = r.holdings
        /\ lp_tokens' = [lp_tokens EXCEPT ![sender] = r.lp_tokens]
        /\ rewards_paid' = rewards_paid + r.ret1
        /\ UNCHANGED <<claimable, fees_added>>
        /\ last' = Recorded("withdraw", r.status, sender, amount_lp, "none",
                            [ret1 |-> r.ret1, ret2 |-> r.ret2] @@ NoSwap)

swap_made(sender, recipient, amount_in, receive_amount_min, zero_fee, is_claimable, direction) ==
    \E r \in {swap_call(pool, holdings, claimable, sender, recipient, amount_in,
                       receive_amount_min, zero_fee, is_claimable, direction)} :
        /\ calls' = calls + 1
        /\ pool' = r.pool
        /\ holdings' = r.holdings
        /\ claimable' = r.claimable
        /\ fees_added' = fees_added + (IF r.status = "Ok" THEN r.ret2 ELSE 0)
        /\ UNCHANGED <<users, lp_tokens, rewards_paid>>
        /\ \E status \in (IF r.wraps THEN {"Abort", "ReservesExhausted"}
                                     ELSE {r.status}) :
              last' = Recorded("swap", status, sender, amount_in, direction, r)

claim_rewards_made(user) ==
    \E r \in {claim_rewards_call(pool, users[user])} :
        /\ calls' = calls + 1
        /\ users' = [users EXCEPT ![user] = r.user]
        /\ rewards_paid' = rewards_paid + r.ret1
        /\ UNCHANGED <<pool, claimable, holdings, lp_tokens, fees_added>>
        /\ last' = Recorded("claim_rewards", r.status, user, 0, "none",
                            [ret1 |-> r.ret1, ret2 |-> 0] @@ NoSwap)

deposit(sender, amount_sp) ==
    calls < MaxCalls /\ deposit_made(sender, amount_sp)

withdraw(sender, amount_lp) ==
    calls < MaxCalls /\ withdraw_made(sender, amount_lp)

swap(sender, recipient, amount_in, receive_amount_min, zero_fee, is_claimable, direction) ==
    /\ calls < MaxCalls
    /\ swap_made(sender, recipient, amount_in, receive_amount_min, zero_fee, is_claimable, direction)

claim_rewards(user) ==
    calls < MaxCalls /\ claim_rewards_made(user)

Next ==
    \/ \E sender \in Users, amount_sp \in DepositAmounts :
          deposit(sender, amount_sp)
    \/ \E sender \in Users, amount_lp \in WithdrawAmounts :
          withdraw(sender, amount_lp)
    \/ \E sender \in Traders, amount_in \in SwapAmounts, mode \in SwapModes,
          direction \in Directions :
          swap(sender, mode.recipient, amount_in, mode.receive_amount_min,
               mode.zero_fee, mode.claimable, direction)
    \/ \E user \in Users : claim_rewards(user)

Spec == Init /\ [][Next]_vars

\* ------------------------------------------------------------------------
\* Properties.
\* ------------------------------------------------------------------------

Curve == get_d(pool, pool.token_a_balance, pool.token_b_balance)

PoolCalls == {"deposit", "withdraw", "swap"}

\* The step is a call of op that succeeded.
Succeeds(op) == last'.op = op /\ last'.status = "Ok"

\* C1: in every state reached from the empty pool by deposit, withdraw and
\* swap calls, total_lp_amount <= d.
C1_TotalLpAtMostD == pool.total_lp_amount <= pool.d

\* C2 (as stated): after every successful deposit, withdraw or swap the
\* stored d equals get_d of the stored balances.
C2_CurveConsistentAfterEveryCall ==
    (last.op \in PoolCalls /\ last.status = "Ok") => pool.d = Curve

\* C2 (amended): after every successful deposit or withdraw the stored d
\* equals get_d of the stored balances; a successful swap leaves the stored
\* d as it was and does not recompute it.
C2_CurveConsistentAfterDepositWithdraw ==
    [][ /\ (Succeeds("deposit") \/ Succeeds("withdraw")) =>
              pool'.d = get_d(pool', pool'.token_a_balance, pool'.token_b_balance)
        /\ Succeeds("swap") => pool'.d = pool.d ]_vars

\* A successful swap has moved the balances and the stored d is no longer
\* get_d of them.
C2_SwapLeftDStale ==
    /\ last.op = "swap" /\ last.status = "Ok" /\ last.amount > 0
    /\ pool.d > 0
    /\ pool.d # Curve

\* C3: after every successful deposit, withdraw or swap that leaves a balance
\* positive, min(a, b) * 10000 >= balance_ratio_min_bp * max(a, b) (a call
\* that would leave the ratio below the floor does not succeed).
C3_RatioFloorAfterEveryCall ==
    ( /\ last.op \in PoolCalls /\ last.status = "Ok"
      /\ Max(pool.token_a_balance, pool.token_b_balance) > 0 )
    => Min(pool.token_a_balance, pool.token_b_balance) * BP
         >= pool.balance_ratio_min_bp * Max(pool.token_a_balance, pool.token_b_balance)

\* C4: after every successful deposit, withdraw or swap,
\* token_a_balance + token_b_balance < MAX_TOKEN_BALANCE.
C4_BelowCeilingAfterEveryCall ==
    (last.op \in PoolCalls /\ last.status = "Ok")
    => pool.token_a_balance + pool.token_b_balance < MAX_TOKEN_BALANCE

RECURSIVE SumLp(_)
SumLp(us) ==
    IF us = {} THEN 0
    ELSE LET u == CHOOSE v \in us : TRUE
         IN  users[u].lp_amount + SumLp(us \ {u})

\* C5: in every reachable state the lp_amount of all UserDeposit records add
\* up to total_lp_amount.
C5_SumOfLpIsTotal == SumLp(Users) = pool.total_lp_amount

\* Both users hold LP and one of them has just withdrawn part of theirs.
C5_TwoHoldersAfterWithdraw ==
    /\ last.op = "withdraw" /\ last.status = "Ok"
    /\ \A u \in Users : users[u].lp_amount > 0

\* C6: immediately after a successful deposit, reserves >= total_lp_amount.
C6_ReservesCoverLpAfterDeposit ==
    (last.op = "deposit" /\ last.status = "Ok")
    => pool.reserves >= pool.total_lp_amount

\* C7: every successful deposit with amount_sp > 0 leaves d strictly greater
\* (lp_minted > 0) and reserves greater by exactly amount_sp; a deposit that
\* would leave d unchanged does not succeed.
C7_DepositGrowsD ==
    [][ (Succeeds("deposit") /\ last'.amount > 0) =>
            /\ pool'.d > pool.d
            /\ last'.ret2 > 0
            /\ pool'.reserves = pool.reserves + last'.amount ]_vars

\* Outcome of withdraw(u, amount_lp) from the current state.
WithdrawOutcome(u, amount_lp) ==
    withdraw_call(pool, users[u], holdings, lp_tokens[u], amount_lp, u)

\* withdraw(u, amount_lp) would take nothing out of the balances, or would
\* not lower d.
ReducesNothing(u, amount_lp) ==
    LET old_balance == pool.token_a_balance + pool.token_b_balance
        token_a_amount == (amount_lp * pool.token_a_balance) \div old_balance
        token_b_amount == (amount_lp * pool.token_b_balance) \div old_balance
    IN  \/ old_balance = 0
        \/ token_a_amount + token_b_amount = 0
        \/ get_d(pool, pool.token_a_balance - token_a_amount,
                       pool.token_b_balance - token_b_amount) >= pool.d

\* C8: every successful withdraw of 0 < amount_lp <= user.lp_amount leaves d
\* strictly smaller and total_lp_amount and reserves smaller by exactly
\* amount_lp; a withdraw that does not reduce a_bal + b_bal or d fails with
\* ZeroChanges, and one with amount_lp > reserves fails with
\* ReservesExhausted.
C8_WithdrawShrinksOrFails ==
    /\ [][ (Succeeds("withdraw") /\ last'.amount > 0) =>
               /\ pool'.d < pool.d
               /\ pool'.total_lp_amount = pool.total_lp_amount - last'.amount
               /\ pool'.reserves = pool.reserves - last'.amount ]_vars
    /\ [](\A u \in Users, amount_lp \in WithdrawAmounts :
             amount_lp <= users[u].lp_amount =>
                 IF ReducesNothing(u, amount_lp)
                 THEN WithdrawOutcome(u, amount_lp).status = "ZeroChanges"
                 ELSE amount_lp > pool.reserves =>
                          WithdrawOutcome(u, amount_lp).status = "ReservesExhausted")

\* C9: a swap with amount_in > 0 moves amount_in of token_from from the
\* sender to the pool: the sender holds amount_in less of token_from, the
\* pool contract amount_in more.
C9_SwapTakesInputFromSender ==
    [][ (Succeeds("swap") /\ last'.amount > 0) =>
            LET token_from == to_tokens(last'.direction)[1]
                sender     == last'.sender
            IN  /\ holdings'[token_from][sender]
                      = holdings[token_from][sender] - last'.amount
                /\ holdings'[token_from][PoolAddress]
                      = holdings[token_from][PoolAddress] + last'.amount ]_vars

\* C10: for every swap with amount_in > 0 that gets to solve
\* new_to = get_y(from_bal + amount_in), the new from-balance is strictly
\* greater than new_to, so that result_sp is set to to_bal - new_to.
C10_NewFromAboveNewTo ==
    \A direction \in Directions, amount_in \in SwapAmounts \ {0} :
        LET token_from == to_tokens(direction)[1]
            new_from   == get_token_balance(pool, token_from) + amount_in
            new_to     == get_y(set_token_balance(pool, new_from, token_from), new_from)
        IN  can_transfer(holdings, token_from, PoolAddress, amount_in)
                => new_from > new_to

\* C11: for every successful swap the change of
\* token_a_balance + token_b_balance equals amount_in - result_sp, and so
\* does the change of reserves (the fee stays in the balances).
C11_SwapMovesSumAndReservesAlike ==
    [][ Succeeds("swap") =>
            /\ (pool'.token_a_balance + pool'.token_b_balance)
                 - (pool.token_a_balance + pool.token_b_balance)
                   = last'.amount - last'.result_sp
            /\ pool'.reserves - pool.reserves = last'.amount - last'.result_sp ]_vars

\* Outcome of swap(sender, sender, amount_in, 0, zero_fee, not claimable, A2B)
\* from the current state.
SwapThere(sender, amount_in, zero_fee) ==
    swap_call(pool, holdings, claimable, sender, sender, amount_in, 0,
              zero_fee, FALSE, "A2B")

\* Outcome of the swap B2A of what SwapThere returned, made right after it.
SwapBack(sender, amount_in, zero_fee) ==
    LET there == SwapThere(sender, amount_in, zero_fee)
    IN  swap_call(there.pool, there.holdings, there.claimable, sender, sender,
                  there.ret1, 0, zero_fee, FALSE, "B2A")

\* The pool is balanced and a deposit has just produced it.
BalancedByDeposit ==
    /\ last.op = "deposit" /\ last.status = "Ok"
    /\ pool.token_a_balance = pool.token_b_balance
    /\ pool.token_a_balance > 0

\* C12: from a balanced pool produced by a deposit, a swap A2B of
\* amount_in > 0 followed immediately by a swap B2A of the amount received
\* returns to the swapper at most amount_in, leaves the swapper with no more
\* of either token than before the round trip (a net loss, never a gain),
\* and does not decrease the pool's d.
C12_RoundTripNeverGains ==
    BalancedByDeposit =>
        \A sender \in Traders, amount_in \in SwapAmounts \ {0}, zero_fee \in BOOLEAN :
            LET there == SwapThere(sender, amount_in, zero_fee)
                back  == SwapBack(sender, amount_in, zero_fee)
            IN  (there.status = "Ok" /\ back.status = "Ok") =>
                    /\ back.ret1 <= amount_in
                    /\ \A token \in Tokens :
                           back.holdings[token][sender] <= holdings[token][sender]
                    /\ back.pool.d >= pool.d

\* C13: withdraw with amount_lp > user.lp_amount ends with the error value
\* NotEnoughAmount (returned, not an abort) and leaves Pool and UserDeposit
\* unchanged.
C13_WithdrawTooMuchReturnsError ==
    \A u \in Users, amount_lp \in WithdrawAmounts :
        amount_lp > users[u].lp_amount =>
            /\ WithdrawOutcome(u, amount_lp).status = "NotEnoughAmount"
            /\ WithdrawOutcome(u, amount_lp).pool = pool
            /\ WithdrawOutcome(u, amount_lp).user = users[u]

ArithmeticFaults == {"division by zero", "underflow", "overflow"}

\* What aborts each call that can be made from the current state ("none"
\* for a call that returns).
FaultsOfCalls ==
    { deposit_call(pool, users[u], holdings, lp_tokens[u], amount_sp, u).fault :
          u \in Users, amount_sp \in DepositAmounts }
    \cup { WithdrawOutcome(u, amount_lp).fault :
               u \in Users, amount_lp \in WithdrawAmounts }
    \cup { swap_call(pool, holdings, claimable, sender, mode.recipient, amount_in,
                     mode.receive_amount_min, mode.zero_fee, mode.claimable,
                     direction).fault :
               sender \in Traders, amount_in \in SwapAmounts, mode \in SwapModes,
               direction \in Directions }
    \cup { claim_rewards_call(pool, users[u]).fault : u \in Users }

\* C14: in every reachable state no call of deposit, withdraw, swap or
\* claim_rewards, with any arguments, aborts on an arithmetic fault (a
\* division by zero or an unsigned subtraction below zero); this includes
\* deposit(1) into the empty pool and withdraw(0) on the empty pool.
C14_NoArithmeticFault == FaultsOfCalls \cap ArithmeticFaults = {}

\* C15: deposit with amount_sp = 0 fails with ZeroAmount in every state, and
\* the Pool record (reserves included), the UserDeposit records and all token
\* holdings are unchanged by the failing call.
C15_DepositZeroFails ==
    /\ [][ (last'.op = "deposit" /\ last'.amount = 0) =>
               /\ last'.status = "ZeroAmount"
               /\ UNCHANGED <<pool, users, holdings, lp_tokens, claimable>> ]_vars
    /\ [](\A u \in Users :
             deposit_call(pool, users[u], holdings, lp_tokens[u], 0, u)
                 = Failed("ZeroAmount", pool, users[u], holdings, lp_tokens[u]))

\* deposit(0) has just been refused on a pool that holds deposits.
C15_ZeroRefusedOnLivePool ==
    /\ last.op = "deposit" /\ last.amount = 0 /\ last.status = "ZeroAmount"
    /\ pool.d > 0 /\ pool.reserves > 0

\* C16: swap with amount_in = 0 returns (0, 0) in every state and for every
\* direction, receive_min, zero_fee and claimable, and leaves the balances, d,
\* reserves, the reward accumulator, admin_fee_amount, the claimable balances
\* and the token holdings unchanged.
C16_SwapZeroIsNoOp ==
    /\ [][ (last'.op = "swap" /\ last'.amount = 0) =>
               /\ last'.status = "Ok"
               /\ last'.ret1 = 0 /\ last'.ret2 = 0
               /\ UNCHANGED <<pool, users, holdings, lp_tokens, claimable>> ]_vars
    /\ [](\A sender \in Users, mode \in SwapModes, direction \in Directions :
             LET r == swap_call(pool, holdings, claimable, sender, mode.recipient, 0,
                                mode.receive_amount_min, mode.zero_fee,
                                mode.claimable, direction)
             IN  /\ r.status = "Ok"
                 /\ r.ret1 = 0 /\ r.ret2 = 0
                 /\ r.pool = pool
                 /\ r.holdings = holdings
                 /\ r.claimable = claimable)

\* swap(0) has just returned on a pool that holds deposits and has seen a
\* swap move its balances apart.
C16_ZeroSwapOnLivePool ==
    /\ last.op = "swap" /\ last.amount = 0 /\ last.status = "Ok"
    /\ pool.d > 0
    /\ pool.token_a_balance # pool.token_b_balance

\* Amounts of a first deposit n whose halves make the product a * (x + y) * xy
\* of get_d, n^3 / 4 for a = 1, leave the word.
DepositOverflowAmounts == {2 ^ ((WordBits + 4) \div 3)}

\* token_a_balance + token_b_balance as deposit sets them before update_d
BalanceAfterDeposit(self, amount_sp) ==
    LET old_balance == self.token_a_balance + self.token_b_balance
    IN  IF self.d = 0 \/ old_balance = 0
        THEN 2 * (amount_sp \div 2)
        ELSE old_balance + (amount_sp * self.token_a_balance) \div old_balance
                         + (amount_sp * self.token_b_balance) \div old_balance

\* The statuses deposit can return from this state: one, unless the outcome
\* depends on whether the build checks arithmetic overflow.
DepositStatuses(u, amount_sp) ==
    LET r == deposit_call(pool, users[u], holdings, lp_tokens[u], amount_sp, u)
    IN  IF r.wraps THEN {"Abort", "PoolOverflow"} ELSE {r.status}

\* C17: for every amount_sp > 0, a deposit after which token_a_balance +
\* token_b_balance would be at or above the ceiling fails with PoolOverflow,
\* not with another error and not with an arithmetic overflow in update_d.
C17_OverCeilingIsPoolOverflow ==
    \A u \in Users, amount_sp \in DepositAmounts \cup DepositOverflowAmounts :
        (amount_sp > 0 /\ BalanceAfterDeposit(pool, amount_sp) >= MAX_TOKEN_BALANCE)
            => DepositStatuses(u, amount_sp) = {"PoolOverflow"}

\* pending reward of a user record: ((lp_amount * acc) >> P) - reward_debt,
\* 0 for a record without LP
PendingReward(self, user) ==
    IF user.lp_amount > 0
    THEN Snapshot(user.lp_amount, self.acc_reward_per_share_p) - user.reward_debt
    ELSE 0

RewardAmounts == 0 .. 4

\* x - y and x * n on accumulator values (n below DigitBase)
AccSub(x, y) ==
    LET s1 == x[1] - y[1]
        b1 == IF s1 < 0 THEN 1 ELSE 0
        s2 == x[2] - y[2] - b1
        b2 == IF s2 < 0 THEN 1 ELSE 0
        s3 == x[3] - y[3] - b2
        b3 == IF s3 < 0 THEN 1 ELSE 0
    IN  <<s1 + b1 * DigitBase, s2 + b2 * DigitBase, s3 + b3 * DigitBase,
          x[4] - y[4] - b3>>

AccMul(x, n) ==
    LET t1 == x[1] * n
        t2 == x[2] * n + (t1 \div DigitBase)
        t3 == x[3] * n + (t2 \div DigitBase)
    IN  <<t1 % DigitBase, t2 % DigitBase, t3 % DigitBase,
          x[4] * n + (t3 \div DigitBase)>>

\* C19: add_rewards(r) with total_lp_amount = 0 changes no pool field; with
\* total_lp_amount > 0 it adds admin_cut = floor(r * admin_fee_share_bp / BP)
\* to admin_fee_amount and floor(((r - admin_cut) << P) / total_lp_amount) to
\* acc_reward_per_share_p, and changes no other field.
C19_AddRewardsSplitsReward ==
    \A r \in RewardAmounts :
        LET after     == add_rewards(pool, r)
            admin_cut == after.admin_fee_amount - pool.admin_fee_amount
            added     == AccSub(after.acc_reward_per_share_p,
                                pool.acc_reward_per_share_p)
            \* ((r - admin_cut) << P) - added * total_lp_amount
            rest      == AccSub(<<0, 0, 0, r - admin_cut>>,
                                AccMul(added, pool.total_lp_amount))
        IN  IF pool.total_lp_amount = 0
            THEN after = pool
            ELSE /\ admin_cut * BP <= r * pool.admin_fee_share_bp
                 /\ r * pool.admin_fee_share_bp < (admin_cut + 1) * BP
                 /\ added[4] >= 0
                 /\ rest[4] = 0 /\ rest[3] = 0 /\ rest[2] = 0
                 /\ rest[1] < pool.total_lp_amount
                 /\ after = [pool EXCEPT
                                !.admin_fee_amount = after.admin_fee_amount,
                                !.acc_reward_per_share_p =
                                    after.acc_reward_per_share_p]

\* A swap has just handed its fee to add_rewards while LP was outstanding and
\* the accumulator has grown; a further reward would be split with the admin.
C19_FeeSplit ==
    /\ last.op = "swap" /\ last.status = "Ok"
    /\ pool.total_lp_amount > 0
    /\ pool.acc_reward_per_share_p # AccZero
    /\ \E r \in RewardAmounts :
          /\ add_rewards(pool, r).admin_fee_amount > pool.admin_fee_amount
          /\ add_rewards(pool, r).acc_reward_per_share_p # pool.acc_reward_per_share_p

\* Amplification factors and even amounts of a first deposit.
FirstDepositAValues == 1 .. 8

FirstDepositAmounts == {2, 4, 6, 8, 10}

\* The pool as constructed: nothing deposited yet.
EmptyPool(self) ==
    /\ self.d = 0
    /\ self.token_a_balance = 0 /\ self.token_b_balance = 0
    /\ self.reserves = 0
    /\ self.total_lp_amount = 0

\* C20: a first deposit of an even amount_sp = n into the empty pool sets
\* token_a_balance = token_b_balance = n / 2, d = n and reserves = n, mints
\* lp_minted = n to the sender and returns claimed reward 0.
C20_FirstDepositMintsAmount ==
    EmptyPool(pool) =>
        \A u \in Users, a \in FirstDepositAValues, n \in FirstDepositAmounts :
            LET r == deposit_call([pool EXCEPT !.a = a], users[u], holdings,
                                  lp_tokens[u], n, u)
            IN  r.status = "Ok" =>
                    /\ r.pool.token_a_balance = n \div 2
                    /\ r.pool.token_b_balance = n \div 2
                    /\ r.pool.d = n
                    /\ r.pool.reserves = n
                    /\ r.ret2 = n
                    /\ r.lp_tokens = lp_tokens[u]
                                       + amount_from_system_precision(n, pool.decimals_lp)
                    /\ r.ret1 = 0

\* ------------------------------------------------------------------------
\* get_d on its own: a pool whose balances have been set to x and y recomputes
\* its d, as deposit and withdraw do in update_d.
\* ------------------------------------------------------------------------

GetDAValues == {1, 2}

GetDArgs == 0 .. MaxArg

InitGetD ==
    /\ \E a \in GetDAValues, x \in GetDArgs, y \in GetDArgs,
          fee \in FeeShareBpValues, admin \in AdminFeeShareBpValues,
          ratio \in BalanceRatioMinBpValues, dec \in DecimalsValues :
          pool = [a |-> a, d |-> 0,
                  token_a_balance |-> x, token_b_balance |-> y,
                  reserves |-> 0, total_lp_amount |-> 0,
                  acc_reward_per_share_p |-> AccZero, admin_fee_amount |-> 0,
                  fee_share_bp |-> fee, admin_fee_share_bp |-> admin,
                  balance_ratio_min_bp |-> ratio,
                  decimals_a |-> dec, decimals_b |-> dec, decimals_lp |-> dec]
    /\ users = [u \in Users |-> [lp_amount |-> 0, reward_debt |-> 0]]
    /\ claimable = [u \in Users |-> 0]
    /\ holdings = [t \in Tokens |->
                      [acc \in Accounts |-> IF acc = PoolAddress THEN 0 ELSE InitialHolding]]
    /\ lp_tokens = [u \in Users |-> 0]
    /\ last = NoCall
    /\ calls = 0
    /\ rewards_paid = 0
    /\ fees_added = 0

update_d_applied ==
    /\ calls = 0
    /\ calls' = 1
    /\ pool' = update_d(pool)
    /\ last' = [NoCall EXCEPT !.op = "update_d"]
    /\ UNCHANGED <<users, claimable, holdings, lp_tokens, rewards_paid, fees_added>>

NextGetD == update_d_applied

SpecGetD == InitGetD /\ [][NextGetD]_vars

\* C21: get_d(0, 0) = 0 and, for every x > 0 in the checked range,
\* get_d(x, x) = 2x: the d of a balanced pool is the sum of its balances.
C21_BalancedDIsSum ==
    (last.op = "update_d" /\ pool.token_a_balance = pool.token_b_balance)
        => pool.d = pool.token_a_balance + pool.token_b_balance

\* C22: get_d is monotone nondecreasing in each argument: no smaller first
\* argument and no smaller second argument gives a larger d.
C22_GetDMonotone ==
    last.op = "update_d" =>
        /\ \A x2 \in GetDArgs :
              x2 <= pool.token_a_balance
                  => get_d(pool, x2, pool.token_b_balance) <= pool.d
        /\ \A y2 \in GetDArgs :
              y2 <= pool.token_b_balance
                  => get_d(pool, pool.token_a_balance, y2) <= pool.d

\* ------------------------------------------------------------------------
\* The precision scaler on its own: an amount is taken to system precision
\* and back with the decimals of token A.
\* ------------------------------------------------------------------------

PrecisionAmounts == (0 .. MaxAmount) \cup {(Word \div 1000) + 1, Word - 1}

PrecisionDecimals == 0 .. MaxDecimals

\* 10u128.pow(..) of the scaler
Pow10(decimals) ==
    IF decimals > SYSTEM_PRECISION THEN 10 ^ (decimals - SYSTEM_PRECISION)
                                   ELSE 10 ^ (SYSTEM_PRECISION - decimals)

\* The power or the product of the scaler does not fit the word.
to_system_overflows(amount, decimals) ==
    \/ Pow10(decimals) >= Word
    \/ decimals < SYSTEM_PRECISION /\ amount * Pow10(decimals) >= Word

from_system_overflows(amount, decimals) ==
    \/ Pow10(decimals) >= Word
    \/ decimals > SYSTEM_PRECISION /\ amount * Pow10(decimals) >= Word

\* What the scaler returns: the value when everything fits; otherwise a build
\* with overflow checks aborts and a build without them goes on with the
\* wrapped power and product (and aborts dividing by a power wrapped to 0).
ScalerAbort == [status |-> "Abort", ret |-> 0]

to_system_outcomes(amount, decimals) ==
    LET p == Pow10(decimals) % Word
    IN  IF ~to_system_overflows(amount, decimals)
            THEN {[status |-> "Ok", ret |-> amount_to_system_precision(amount, decimals)]}
        ELSE IF decimals > SYSTEM_PRECISION
            THEN {ScalerAbort} \cup
                 (IF p = 0 THEN {} ELSE {[status |-> "Ok", ret |-> amount \div p]})
        ELSE {ScalerAbort, [status |-> "Ok", ret |-> (amount * p) % Word]}

from_system_outcomes(amount, decimals) ==
    LET p == Pow10(decimals) % Word
    IN  IF ~from_system_overflows(amount, decimals)
            THEN {[status |-> "Ok", ret |-> amount_from_system_precision(amount, decimals)]}
        ELSE IF decimals < SYSTEM_PRECISION
            THEN {ScalerAbort} \cup
                 (IF p = 0 THEN {} ELSE {[status |-> "Ok", ret |-> amount \div p]})
        ELSE {ScalerAbort, [status |-> "Ok", ret |-> (amount * p) % Word]}

InitPrecision ==
    /\ \E a \in AValues, fee \in FeeShareBpValues, admin \in AdminFeeShareBpValues,
          ratio \in BalanceRatioMinBpValues, dec \in PrecisionDecimals :
          pool = [a |-> a, d |-> 0,
                  token_a_balance |-> 0, token_b_balance |-> 0,
                  reserves |-> 0, total_lp_amount |-> 0,
                  acc_reward_per_share_p |-> AccZero, admin_fee_amount |-> 0,
                  fee_share_bp |-> fee, admin_fee_share_bp |-> admin,
                  balance_ratio_min_bp |-> ratio,
                  decimals_a |-> dec, decimals_b |-> dec, decimals_lp |-> dec]
    /\ users = [u \in Users |-> [lp_amount |-> 0, reward_debt |-> 0]]
    /\ claimable = [u \in Users |-> 0]
    /\ holdings = [t \in Tokens |->
                      [acc \in Accounts |-> IF acc = PoolAddress THEN 0 ELSE InitialHolding]]
    /\ lp_tokens = [u \in Users |-> 0]
    /\ \E amount \in PrecisionAmounts : last = [NoCall EXCEPT !.amount = amount]
    /\ calls = 0
    /\ rewards_paid = 0
    /\ fees_added = 0

\* last.amount: the amount; ret1: what amount_to_system_precision returned;
\* ret2: what amount_from_system_precision returned for ret1
to_system_applied ==
    /\ last.op = "none"
    /\ calls' = calls + 1
    /\ \E r \in to_system_outcomes(last.amount, pool.decimals_a) :
          last' = [last EXCEPT !.op = "amount_to_system_precision",
                               !.status = r.status, !.ret1 = r.ret]
    /\ UNCHANGED <<pool, users, claimable, holdings, lp_tokens, rewards_paid, fees_added>>

from_system_applied ==
    /\ last.op = "amount_to_system_precision"
    /\ last.status = "Ok"
    /\ calls' = calls + 1
    /\ \E r \in from_system_outcomes(last.ret1, pool.decimals_a) :
          last' = [last EXCEPT !.op = "amount_from_system_precision",
                               !.status = r.status, !.ret2 = r.ret]
    /\ UNCHANGED <<pool, users, claimable, holdings, lp_tokens, rewards_paid, fees_added>>

NextPrecision ==
    \/ to_system_applied
    \/ from_system_applied

SpecPrecision == InitPrecision /\ [][NextPrecision]_vars

\* a when dec <= 3, a - (a mod 10^(dec - 3)) when dec > 3
RoundTripValue(a, dec) ==
    IF dec <= 3 THEN a ELSE a - (a % (10 ^ (dec - 3)))

RoundTripHolds ==
    /\ last.op = "amount_to_system_precision" => last.status = "Ok"
    /\ last.op = "amount_from_system_precision" =>
          /\ last.status = "Ok"
          /\ last.ret2 = RoundTripValue(last.amount, pool.decimals_a)

\* The power of ten and the scaled-up amount fit the unsigned word.
ScalerFits(a, dec) ==
    /\ Pow10(dec) < Word
    /\ dec < 3 => a * (10 ^ (3 - dec)) < Word

RewardDepositAmounts == {6, 9}

RewardWithdrawAmounts == {2}

RewardSwapAmounts == {1, 2}

NextRewards ==
    \/ \E sender \in Users, amount_sp \in RewardDepositAmounts :
          calls < MaxRewardCalls /\ deposit_made(sender, amount_sp)
    \/ \E sender \in Users, amount_lp \in RewardWithdrawAmounts :
          calls < MaxRewardCalls /\ withdraw_made(sender, amount_lp)
    \/ \E sender \in Traders, amount_in \in RewardSwapAmounts,
          direction \in Directions :
          /\ calls < MaxRewardCalls
          /\ swap_made(sender, sender, amount_in, 0, FALSE, FALSE, direction)
    \/ \E user \in Users :
          calls < MaxRewardCalls /\ claim_rewards_made(user)

SpecRewards == Init /\ [][NextRewards]_vars

\* C24: over any sequence of deposits, withdrawals, swaps and claims by any
\* users, the sum of the pending rewards returned to users by deposit,
\* withdraw and claim_rewards plus admin_fee_amount never exceeds the sum of
\* the fees passed to add_rewards.
\* The sum is taken after every user has gone on to call claim_rewards (the
\* claims of different users do not affect one another).
RECURSIVE SumClaims(_)
SumClaims(S) ==
    IF S = {} THEN 0
    ELSE LET u == CHOOSE v \in S : TRUE
         IN  claim_rewards_call(pool, users[u]).ret1 + SumClaims(S \ {u})

C24_RewardsWithinFees ==
    rewards_paid + SumClaims(Users) + pool.admin_fee_amount <= fees_added

RECURSIVE SumClaimable(_)
SumClaimable(S) ==
    IF S = {} THEN 0
    ELSE LET u == CHOOSE v \in S : TRUE
         IN  claimable[u] + SumClaimable(S \ {u})

\* C25: token solvency.  In every state reached by deposits, withdrawals and
\* swaps (decimals equal to system precision) the pool contract holds of each
\* token at least its virtual balance of that token plus the claimable
\* amounts credited in that token.  ClaimableBalance keeps one amount for a
\* recipient, whatever the token: the holding of each token covers at least
\* the virtual balance, and the two holdings together cover the two balances
\* and all claimable amounts.
C25_PoolHoldsItsBalances ==
    /\ holdings["TokenA"][PoolAddress] >= pool.token_a_balance
    /\ holdings["TokenB"][PoolAddress] >= pool.token_b_balance
    /\ holdings["TokenA"][PoolAddress] + holdings["TokenB"][PoolAddress]
         >= pool.token_a_balance + pool.token_b_balance + SumClaimable(Users)

\* The errors the checks of deposit, withdraw and swap return.
CheckErrors ==
    {"ZeroAmount", "PoolOverflow", "BalanceRatioExceeded", "ZeroChanges",
     "ReservesExhausted", "InsufficientReceivedAmount"}

\* The statuses an outcome can be returned with and the effects issued by
\* then, for each call of deposit, withdraw and swap that can be made from
\* the current state.
ReturnsOf(r, wrapped) ==
    { [status |-> st, issued |-> r.issued] :
          st \in (IF r.wraps THEN {"Abort", wrapped} ELSE {r.status}) }

ReturnsOfCalls ==
    UNION ( { ReturnsOf(deposit_call(pool, users[u], holdings, lp_tokens[u],
                                     amount_sp, u), "PoolOverflow") :
                  u \in Users, amount_sp \in DepositAmounts }
            \cup { ReturnsOf(WithdrawOutcome(u, amount_lp), "Abort") :
                       u \in Users, amount_lp \in WithdrawAmounts }
            \cup { ReturnsOf(swap_call(pool, holdings, claimable, sender,
                                       mode.recipient, amount_in,
                                       mode.receive_amount_min, mode.zero_fee,
                                       mode.claimable, direction),
                             "ReservesExhausted") :
                       sender \in Traders, amount_in \in SwapAmounts,
                       mode \in SwapModes, direction \in Directions } )

\* C26: no operation that returns an error has issued an external effect
\* before failing: in deposit, withdraw and swap every token transfer, mint,
\* burn and claimable credit is issued only after all of the operation's
\* checks have passed.
C26_NoEffectBeforeError ==
    \A r \in ReturnsOfCalls : r.status \in CheckErrors => r.issued = 0

====
